---- MODULE Spec2Model ----
(***************************************************************************)
(* Model of netanalysis/ooni/data/sync_measurements.py: main() dispatches  *)
(* sync_file over a ThreadPool; fetch_file checks the cost ceiling, writes *)
(* an entry's records to <target>.tmp through a gzip stream and renames    *)
(* the temporary file onto the target.                                     *)
(*                                                                         *)
(* Entries are numbered 1..NumEntries.  Spec takes the local paths of      *)
(* distinct entries to be distinct (pathOf is the identity), so a path is  *)
(* named by the number of its entry.  A file is an inode: a directory      *)
(* entry (target or temp) holds an inode number or NoFile, and a worker's  *)
(* open stream writes to the inode it opened, whatever name it has now.    *)
(* Cost is counted in whole units (one per streamed record).  The pool size *)
(* depends on the machine; the model takes every size up to NumWorkers.    *)
(* Idle workers are interchangeable, so the lowest-numbered idle worker    *)
(* takes the next task.                                                    *)
(***************************************************************************)
EXTENDS Integers, Sequences, FiniteSets, TLC

\* ---- bounds of the model
NumEntries == 2
NumWorkers == 2
MaxRecords == 1
MaxLimit == 1
PriorCost == 1
MaxFaults == 1
MaxStrLen == 1
MaxNodes == 4
MaxSuffixes == 2

Entries == 1..NumEntries
Workers == 1..NumWorkers
Paths == Entries
NoFile == 0
NoEntry == 0
\* inode e is the file created for entry e; NumEntries + p is the file that
\* was at target path p before the run
OldInode(p) == NumEntries + p
StaleInode(p) == 2 * NumEntries + p
Inodes == 1..(3 * NumEntries)

VARIABLES
    cost_limit_usd,     \* args.cost_limit_usd
    prior_cost,         \* ooni.cost_usd when dispatch starts (never changes)
    cost_usd,           \* ooni.cost_usd
    num_measurements,   \* main's nonlocal counter
    nrec,               \* nrec[e]: length of entry e's record stream
    pathOf,             \* pathOf[e]: _make_local_path(output_dir, e)
    processes,          \* size of the ThreadPool, 5 * os.cpu_count() in the code
    target0,            \* target0[p]: target[p] when the run started (never changes)
    target,             \* target[p]: inode at the target path, or NoFile
    temp,               \* temp[p]: inode at <target>.tmp, or NoFile
    files,              \* files[i]: [lines, closed] of inode i
    mainpc,             \* position of the main thread
    next_entry,         \* next entry the pool hands to a worker
    started,            \* started[e]: how many times sync_file(e) was begun
    pc,                 \* pc[w]: position of worker w inside its task
    cur,                \* cur[w]: entry worker w is processing
    pos,                \* pos[w]: records drawn so far from the stream
    handle,             \* handle[w]: inode worker w's gzip stream writes to
    loaded,             \* loaded[w]: num_measurements as read by "+= 1"
    orig,               \* orig[w]: first failure raised inside the try block
    err,                \* err[w]: failure currently propagating
    outcome,            \* outcome[e]: result of task e, [kind, err, orig]
    outq,               \* results not yet taken by imap_unordered's consumer
    logged,             \* logged[e]: the messages main logged for entry e
    summary,            \* the summary line, or <<>> when not logged
    main_err,           \* the exception propagating out of main, "" if none
    exit_status,        \* process exit status, -1 while running
    faults,             \* failures injected so far
    max_string_size,    \* args.max_string_size
    record,             \* a measurement handed to trim_measurement on its own
    trimmed,            \* what trim_measurement returned for it, call after call
    listing,            \* two entries of one listing handed to _make_local_path
    resolved            \* the target and temporary paths they resolve to

vars == <<cost_limit_usd, prior_cost, cost_usd, num_measurements, nrec, pathOf,
          processes, target0,
          target, temp, files, mainpc, next_entry, started, pc, cur, pos,
          handle, loaded, orig, err, outcome, outq, logged, summary,
          main_err, exit_status, faults, max_string_size, record, trimmed,
          listing, resolved>>

inputs == <<cost_limit_usd, prior_cost, nrec, pathOf, processes, target0,
            max_string_size>>
\* the variables of the specifications of the pure functions; a run leaves
\* them alone
funvars == <<record, trimmed, listing, resolved>>
fsvars == <<target, temp, files>>
mainvars == <<mainpc, logged, summary, main_err, exit_status>>
taskvars == <<pc, cur, pos, handle, loaded, orig, err>>

\* ---- measurements (JSON values) and trim_measurement

\* A JSON value is [t, n, kids]: t is its type, n the length of a string or
\* the value of a number, kids the items of a mapping (in insertion order,
\* key k and value v) or the elements of a sequence (k is "").
Str(n) == [t |-> "str", n |-> n, kids |-> <<>>]
Num(n) == [t |-> "num", n |-> n, kids |-> <<>>]
Dict(items) == [t |-> "dict", n |-> 0, kids |-> items]
List(elems) == [t |-> "list", n |-> 0,
                kids |-> [i \in 1..Len(elems) |-> [k |-> "", v |-> elems[i]]]]

Keys == {"a", "b"}
KeySeqs == {<<>>} \cup {<<k>> : k \in Keys}
              \cup {ks \in Keys \X Keys : ks[1] # ks[2]}

\* strings of every length up to MaxStrLen, and a number larger than that
Scalars == {Str(n) : n \in 0..MaxStrLen} \cup {Num(MaxStrLen + 1)}

\* every JSON value of exactly n nodes; KidsOfSize(n, ks) is every item
\* sequence with the keys ks whose values have n nodes in all
RECURSIVE ValuesOfSize(_), KidsOfSize(_, _)
KidsOfSize(n, ks) ==
    IF ks = <<>>
    THEN IF n = 0 THEN {<<>>} ELSE {}
    ELSE UNION {{<<[k |-> Head(ks), v |-> v]>> \o rest :
                    v \in ValuesOfSize(m), rest \in KidsOfSize(n - m, Tail(ks))} :
                m \in 1..(n - Len(ks) + 1)}

ValuesOfSize(n) ==
    IF n = 1
    THEN Scalars \cup {Dict(<<>>), List(<<>>)}
    ELSE (UNION {{[t |-> "dict", n |-> 0, kids |-> kk] :
                     kk \in KidsOfSize(n - 1, ks)} : ks \in KeySeqs \ {<<>>}})
         \cup
         (UNION {{[t |-> "list", n |-> 0, kids |-> kk] :
                     kk \in KidsOfSize(n - 1, [i \in 1..k |-> ""])} : k \in 1..(n - 1)})

Values == UNION {ValuesOfSize(n) : n \in 1..MaxNodes}

\* line 42: type(value) == str and len(value) > max_string_size
IsLongStringAtLimit(v, max) == v.t = "str" /\ v.n >= max
IsLongString(v, max) == v.t = "str" /\ v.n > max

RECURSIVE trim_measurement(_, _), TrimDictItems(_, _), TrimDictItemsFirstOnly(_, _)

TrimDictItemsFirstOnly(items, max) ==
    IF items = <<>> THEN <<>>
    ELSE IF IsLongString(Head(items).v, max)
         THEN Tail(items)
         ELSE <<[k |-> Head(items).k, v |-> trim_measurement(Head(items).v, max)]>>
                  \o TrimDictItemsFirstOnly(Tail(items), max)

\* lines 40-47: the keys whose value is a long string are deleted, every
\* other value is trimmed where it is
TrimDictItems(items, max) ==
    IF items = <<>> THEN <<>>
    ELSE IF IsLongString(Head(items).v, max)
         THEN TrimDictItems(Tail(items), max)
         ELSE <<[k |-> Head(items).k, v |-> trim_measurement(Head(items).v, max)]>>
                  \o TrimDictItems(Tail(items), max)

\* lines 53-54: every element is trimmed where it is (the call returns a
\* string element as it is)
TrimListItems(elems, max) ==
    [i \in 1..Len(elems) |-> [k |-> "", v |-> trim_measurement(elems[i].v, max)]]

\* lines 33-55: trim_measurement, dispatched on the type of its argument;
\* the mapping or sequence is changed in place and returned
trim_measurement(v, max) ==
    CASE v.t = "dict" -> [v EXCEPT !.kids = TrimDictItems(@, max)]
      [] v.t = "list" -> [v EXCEPT !.kids = TrimListItems(@, max)]
      [] OTHER -> v

\* ---- pure helpers

\* record i of entry e: a long string field, an empty one, and a sequence
\* that tells the records apart
Measurement(e, i) ==
    Dict(<<[k |-> "body", v |-> Str(MaxStrLen)],
           [k |-> "cc", v |-> Str(0)],
           [k |-> "id", v |-> List(<<Num(e), Num(i)>>)]>>)

\* the records entry e's get_measurements() yields, in order
RecordsOf(e, n) == [i \in 1..n |-> Measurement(e, i)]

\* lines 99-102: what a whole download of entry e writes, line by line
TrimmedRecordsOf(e, n) ==
    [i \in 1..n |-> trim_measurement(RecordsOf(e, n)[i], max_string_size)]

EmptyFile == [lines |-> <<>>, closed |-> FALSE]

\* what an interrupted run left in a temporary file: a line of that run,
\* never closed
StaleLine == Dict(<<[k |-> "id", v |-> List(<<Num(0), Num(0)>>)]>>)
StaleFile == [lines |-> <<StaleLine>>, closed |-> FALSE]

\* line 82: target_file_path.is_file()
is_file_never(t) == FALSE
is_file(t) == t # NoFile

\* line 89: ooni.cost_usd > args.cost_limit_usd
CostExceededAtLimit(c, l) == c >= l
CostExceededNever(c, l) == FALSE
CostExceededSwapped(c, l) == l > c
CostExceeded(c, l) == c > l

\* a file that holds all records of entry e, flushed and closed
Complete(i, e) == files[i].closed /\ files[i].lines = TrimmedRecordsOf(e, nrec[e])

NoOutcome == [kind |-> "none", err |-> "", orig |-> ""]

CanFault == faults < MaxFaults

Alive == mainpc = "dispatching"

\* ---- initial states

\* the state when main starts: the ceiling is drawn from Limits, every
\* entry's record count from Counts, the pool size from Pools, the set of
\* paths whose target exists already from PresentSets, and the set of paths
\* where an earlier, interrupted run left a temporary file from StaleSets
InitRun(Limits, Counts, Pools, PresentSets, StaleSets) ==
    /\ cost_limit_usd \in Limits
    /\ max_string_size = 0
    /\ prior_cost = PriorCost
    /\ cost_usd = prior_cost
    /\ num_measurements = 0
    /\ nrec \in [Entries -> Counts]
    /\ pathOf = [e \in Entries |-> e]
    /\ processes \in Pools
    /\ \E present \in PresentSets, stale \in StaleSets :
          /\ target = [p \in Paths |-> IF p \in present THEN OldInode(p) ELSE NoFile]
          /\ temp = [p \in Paths |-> IF p \in stale THEN StaleInode(p) ELSE NoFile]
          /\ files = [i \in Inodes |->
                        IF i \in {OldInode(p) : p \in present}
                        THEN [lines |-> TrimmedRecordsOf(i - NumEntries,
                                                         nrec[i - NumEntries]),
                              closed |-> TRUE]
                        ELSE IF i \in {StaleInode(p) : p \in stale}
                        THEN StaleFile
                        ELSE EmptyFile]
    /\ target0 = target
    /\ mainpc = "listing"
    /\ next_entry = 1
    /\ started = [e \in Entries |-> 0]
    /\ pc = [w \in Workers |-> "idle"]
    /\ cur = [w \in Workers |-> NoEntry]
    /\ pos = [w \in Workers |-> 0]
    /\ handle = [w \in Workers |-> NoFile]
    /\ loaded = [w \in Workers |-> 0]
    /\ orig = [w \in Workers |-> ""]
    /\ err = [w \in Workers |-> ""]
    /\ outcome = [e \in Entries |-> NoOutcome]
    /\ outq = <<>>
    /\ logged = [e \in Entries |-> <<>>]
    /\ summary = <<>>
    /\ main_err = ""
    /\ exit_status = -1
    /\ faults = 0
    /\ record = Num(0)
    /\ trimmed = <<>>
    /\ listing = <<>>
    /\ resolved = <<>>

\* a run in a directory no earlier run was interrupted in
Init == InitRun(0..MaxLimit, 1..MaxRecords, 1..NumWorkers, SUBSET Paths, {{}})

\* ---- the main thread

\* line 132: sys.exit(main(...)); an exception leaving main ends the process
\* with status 1, a return of None with status 0
ExitStatusAlwaysZero(raised) == 0
ExitStatus(raised) == IF raised THEN 1 ELSE 0

\* lines 77-78: ooni.list_files(...) returns the candidate entries, or raises
ListFiles ==
    /\ mainpc = "listing"
    /\ \/ /\ mainpc' = "dispatching"
          /\ UNCHANGED <<main_err, exit_status, faults>>
       \/ /\ CanFault
          /\ faults' = faults + 1
          /\ main_err' = "ListingError"
          /\ mainpc' = "aborted"
          /\ exit_status' = ExitStatus(TRUE)
    /\ UNCHANGED <<inputs, funvars, cost_usd, num_measurements, fsvars, next_entry, started,
                   taskvars, outcome, outq, logged, summary>>

\* lines 110-111: imap_unordered hands over the next finished result; a
\* successful one is logged
MainLog ==
    /\ mainpc = "dispatching"
    /\ outq # <<>>
    /\ outcome[Head(outq)].kind \in {"skipped", "downloaded"}
    /\ logged' = [logged EXCEPT ![Head(outq)] = Append(@, outcome[Head(outq)].kind)]
    /\ outq' = Tail(outq)
    /\ UNCHANGED <<inputs, funvars, cost_usd, num_measurements, fsvars, next_entry, started,
                   taskvars, outcome, mainpc, summary, main_err,
                   exit_status, faults>>

MainRaiseAbsorbed ==
    /\ mainpc = "dispatching"
    /\ outq # <<>>
    /\ outcome[Head(outq)].kind = "failed"
    /\ logged' = [logged EXCEPT ![Head(outq)] = Append(@, outcome[Head(outq)].kind)]
    /\ outq' = Tail(outq)
    /\ UNCHANGED <<inputs, funvars, cost_usd, num_measurements, fsvars, next_entry, started,
                   taskvars, outcome, mainpc, summary, main_err,
                   exit_status, faults>>

MainRaiseDropped ==
    /\ mainpc = "dispatching"
    /\ outq # <<>>
    /\ outcome[Head(outq)].kind = "failed"
    /\ outq' = Tail(outq)
    /\ UNCHANGED <<inputs, funvars, cost_usd, num_measurements, fsvars, next_entry, started,
                   taskvars, outcome, mainvars, faults>>

MainRaiseRollback ==
    /\ mainpc = "dispatching"
    /\ outq # <<>>
    /\ outcome[Head(outq)].kind = "failed"
    /\ main_err' = outcome[Head(outq)].err
    /\ mainpc' = "aborted"
    /\ exit_status' = ExitStatus(TRUE)
    /\ outq' = Tail(outq)
    /\ target' = target0
    /\ UNCHANGED <<inputs, funvars, cost_usd, num_measurements, temp, files, next_entry,
                   started, taskvars, outcome, logged, summary, faults>>

\* lines 109-110 and 132: a failed result is re-raised by the iterator;
\* leaving the with block terminates the pool (queued tasks are dropped, the
\* worker threads are neither stopped nor joined), the exception leaves main
\* and the interpreter exits; the pool's daemon threads stop wherever they are
MainRaise ==
    /\ mainpc = "dispatching"
    /\ outq # <<>>
    /\ outcome[Head(outq)].kind = "failed"
    /\ main_err' = outcome[Head(outq)].err
    /\ mainpc' = "aborted"
    /\ exit_status' = ExitStatus(TRUE)
    /\ outq' = Tail(outq)
    /\ UNCHANGED <<inputs, funvars, cost_usd, num_measurements, fsvars, next_entry, started,
                   taskvars, outcome, logged, summary, faults>>

\* line 113 and line 132: every result was consumed; the summary is logged
\* and main returns None
MainSummary ==
    /\ mainpc = "dispatching"
    /\ \A e \in Entries : logged[e] # <<>>
    /\ summary' = <<[records |-> num_measurements, cost |-> cost_usd]>>
    /\ mainpc' = "completed"
    /\ exit_status' = ExitStatus(FALSE)
    /\ UNCHANGED <<inputs, funvars, cost_usd, num_measurements, fsvars, next_entry, started,
                   taskvars, outcome, outq, logged, main_err, faults>>

\* ---- the pool's worker threads

\* the task returns or raises: its result goes to the pool's result queue
Finish(w, kind, e1, e0) ==
    /\ outcome' = [outcome EXCEPT ![cur[w]] = [kind |-> kind, err |-> e1, orig |-> e0]]
    /\ outq' = Append(outq, cur[w])
    /\ pc' = [pc EXCEPT ![w] = "idle"]
    /\ cur' = [cur EXCEPT ![w] = NoEntry]
    /\ pos' = [pos EXCEPT ![w] = 0]
    /\ handle' = [handle EXCEPT ![w] = NoFile]
    /\ loaded' = [loaded EXCEPT ![w] = 0]
    /\ orig' = [orig EXCEPT ![w] = ""]
    /\ err' = [err EXCEPT ![w] = ""]

Goto(w, label) == pc' = [pc EXCEPT ![w] = label]

\* an exception e is raised inside the try block
Raise(w, e, label) ==
    /\ CanFault
    /\ faults' = faults + 1
    /\ orig' = [orig EXCEPT ![w] = e]
    /\ err' = [err EXCEPT ![w] = e]
    /\ Goto(w, label)

GetTaskAfterExit(w) ==
    /\ w <= processes
    /\ pc[w] = "idle"
    /\ \A v \in Workers : v < w => pc[v] # "idle"
    /\ next_entry <= NumEntries
    /\ cur' = [cur EXCEPT ![w] = next_entry]
    /\ started' = [started EXCEPT ![next_entry] = @ + 1]
    /\ next_entry' = next_entry + 1
    /\ Goto(w, "sync")
    /\ UNCHANGED <<inputs, funvars, cost_usd, num_measurements, fsvars, mainvars, pos, handle,
                   loaded, orig, err, outcome, outq, faults>>

\* line 110: an idle worker takes the next entry of file_entries
GetTask(w) ==
    /\ mainpc = "dispatching"
    /\ w <= processes
    /\ pc[w] = "idle"
    /\ \A v \in Workers : v < w => pc[v] # "idle"
    /\ next_entry <= NumEntries
    /\ cur' = [cur EXCEPT ![w] = next_entry]
    /\ started' = [started EXCEPT ![next_entry] = @ + 1]
    /\ next_entry' = next_entry + 1
    /\ Goto(w, "sync")
    /\ UNCHANGED <<inputs, funvars, cost_usd, num_measurements, fsvars, mainvars, pos, handle,
                   loaded, orig, err, outcome, outq, faults>>

\* lines 80-84: sync_file
SyncFile(w) ==
    /\ Alive
    /\ pc[w] = "sync"
    /\ IF is_file(target[pathOf[cur[w]]])
       THEN Finish(w, "skipped", "", "")
       ELSE /\ Goto(w, "check")
            /\ UNCHANGED <<cur, pos, handle, loaded, orig, err, outcome, outq>>
    /\ UNCHANGED <<inputs, funvars, cost_usd, num_measurements, fsvars, mainvars, next_entry,
                   started, faults>>

\* lines 88-91: the budget check of fetch_file, outside the try block
CheckBudget(w) ==
    /\ Alive
    /\ pc[w] = "check"
    /\ IF CostExceeded(cost_usd, cost_limit_usd)
       THEN Finish(w, "failed", "CostLimitError", "CostLimitError")
       ELSE /\ Goto(w, "open")
            /\ UNCHANGED <<cur, pos, handle, loaded, orig, err, outcome, outq>>
    /\ UNCHANGED <<inputs, funvars, cost_usd, num_measurements, fsvars, mainvars, next_entry,
                   started, faults>>

OpenTempAppend(w) ==
    /\ Alive
    /\ pc[w] = "open"
    /\ LET p == pathOf[cur[w]]
           i == IF temp[p] = NoFile THEN cur[w] ELSE temp[p]
       IN \/ /\ temp' = [temp EXCEPT ![p] = i]
             /\ files' = [files EXCEPT ![i] = IF temp[p] = NoFile THEN EmptyFile ELSE @]
             /\ handle' = [handle EXCEPT ![w] = i]
             /\ Goto(w, "next")
             /\ UNCHANGED <<orig, err, faults>>
          \/ /\ Raise(w, "OpenError", "except")
             /\ UNCHANGED <<temp, files, handle>>
    /\ UNCHANGED <<inputs, funvars, cost_usd, num_measurements, target, mainvars, next_entry,
                   started, cur, pos, loaded, outcome, outq>>

\* lines 95-97: gzip.open(temp_path, mode='wt') creates or truncates the
\* temporary file; when it raises, the with block is never entered
OpenTemp(w) ==
    /\ Alive
    /\ pc[w] = "open"
    /\ LET p == pathOf[cur[w]]
           i == IF temp[p] = NoFile THEN cur[w] ELSE temp[p]
       IN \/ /\ temp' = [temp EXCEPT ![p] = i]
             /\ files' = [files EXCEPT ![i] = EmptyFile]
             /\ handle' = [handle EXCEPT ![w] = i]
             /\ Goto(w, "next")
             /\ UNCHANGED <<orig, err, faults>>
          \/ /\ Raise(w, "OpenError", "except")
             /\ UNCHANGED <<temp, files, handle>>
    /\ UNCHANGED <<inputs, funvars, cost_usd, num_measurements, target, mainvars, next_entry,
                   started, cur, pos, loaded, outcome, outq>>

\* the cost ooni_client accrues while it downloads one record of an entry
CostAfterRecord(c) == c + 1

\* line 98: the next step of "for measurement in entry.get_measurements()"
NextRecord(w) ==
    /\ Alive
    /\ pc[w] = "next"
    /\ \/ /\ pos[w] < nrec[cur[w]]
          /\ pos' = [pos EXCEPT ![w] = @ + 1]
          /\ cost_usd' = CostAfterRecord(cost_usd)
          /\ Goto(w, "load")
          /\ UNCHANGED <<orig, err, faults>>
       \/ /\ pos[w] = nrec[cur[w]]
          /\ Goto(w, "replace")
          /\ UNCHANGED <<pos, cost_usd, orig, err, faults>>
       \/ /\ Raise(w, "StreamError", "exit")
          /\ UNCHANGED <<pos, cost_usd>>
    /\ UNCHANGED <<inputs, funvars, num_measurements, fsvars, mainvars, next_entry, started,
                   cur, handle, loaded, outcome, outq>>

\* line 99: num_measurements += 1 reads the shared counter ...
LoadCount(w) ==
    /\ Alive
    /\ pc[w] = "load"
    /\ loaded' = [loaded EXCEPT ![w] = num_measurements]
    /\ Goto(w, "store")
    /\ UNCHANGED <<inputs, funvars, cost_usd, num_measurements, fsvars, mainvars, next_entry,
                   started, cur, pos, handle, orig, err, outcome, outq, faults>>

\* ... and stores the value it read plus one, with no lock in between
StoreCount(w) ==
    /\ Alive
    /\ pc[w] = "store"
    /\ num_measurements' = loaded[w] + 1
    /\ loaded' = [loaded EXCEPT ![w] = 0]
    /\ Goto(w, "write")
    /\ UNCHANGED <<inputs, funvars, cost_usd, fsvars, mainvars, next_entry, started, cur, pos,
                   handle, orig, err, outcome, outq, faults>>

WriteRecordPrepend(w) ==
    /\ Alive
    /\ pc[w] = "write"
    /\ \/ /\ files' = [files EXCEPT ![handle[w]].lines =
                          <<trim_measurement(RecordsOf(cur[w], nrec[cur[w]])[pos[w]],
                                             max_string_size)>> \o @]
          /\ Goto(w, "next")
          /\ UNCHANGED <<orig, err, faults>>
       \/ /\ Raise(w, "WriteError", "exit")
          /\ UNCHANGED files
    /\ UNCHANGED <<inputs, funvars, cost_usd, num_measurements, target, temp, mainvars,
                   next_entry, started, cur, pos, handle, loaded, outcome, outq>>

\* lines 100-102: trim, ujson.dump and write('\n') into the gzip stream
WriteRecord(w) ==
    /\ Alive
    /\ pc[w] = "write"
    /\ \/ /\ files' = [files EXCEPT ![handle[w]].lines =
                          Append(@, trim_measurement(RecordsOf(cur[w], nrec[cur[w]])[pos[w]],
                                                     max_string_size))]
          /\ Goto(w, "next")
          /\ UNCHANGED <<orig, err, faults>>
       \/ /\ Raise(w, "WriteError", "exit")
          /\ UNCHANGED files
    /\ UNCHANGED <<inputs, funvars, cost_usd, num_measurements, target, temp, mainvars,
                   next_entry, started, cur, pos, handle, loaded, outcome, outq>>

ReplaceForgotten(w) ==
    /\ Alive
    /\ pc[w] = "replace"
    /\ Goto(w, "close")
    /\ UNCHANGED <<inputs, funvars, cost_usd, num_measurements, fsvars, mainvars, next_entry,
                   started, cur, pos, handle, loaded, orig, err, outcome, outq, faults>>

\* line 103: temp_path.replace(target_file_path), still inside the with block
Replace(w) ==
    /\ Alive
    /\ pc[w] = "replace"
    /\ LET p == pathOf[cur[w]]
       IN \/ /\ temp[p] # NoFile
             /\ target' = [target EXCEPT ![p] = temp[p]]
             /\ temp' = [temp EXCEPT ![p] = NoFile]
             /\ Goto(w, "close")
             /\ UNCHANGED <<orig, err, faults>>
          \/ /\ Raise(w, "ReplaceError", "exit")
             /\ UNCHANGED <<target, temp>>
    /\ UNCHANGED <<inputs, funvars, cost_usd, num_measurements, files, mainvars, next_entry,
                   started, cur, pos, handle, loaded, outcome, outq>>

\* lines 97 and 107: the with block ends normally: the gzip stream is flushed
\* and closed, then the task returns its message
CloseStream(w) ==
    /\ Alive
    /\ pc[w] = "close"
    /\ \/ /\ files' = [files EXCEPT ![handle[w]].closed = TRUE]
          /\ Finish(w, "downloaded", "", "")
          /\ UNCHANGED faults
       \/ /\ Raise(w, "CloseError", "except")
          /\ UNCHANGED <<files, cur, pos, handle, loaded, outcome, outq>>
    /\ UNCHANGED <<inputs, funvars, cost_usd, num_measurements, target, temp, mainvars,
                   next_entry, started>>

\* line 97: the with block is left by an exception: the stream is closed on
\* the way out; a failing close replaces the exception being propagated
ExitWith(w) ==
    /\ Alive
    /\ pc[w] = "exit"
    /\ \/ /\ files' = [files EXCEPT ![handle[w]].closed = TRUE]
          /\ UNCHANGED <<err, faults>>
       \/ /\ CanFault
          /\ faults' = faults + 1
          /\ err' = [err EXCEPT ![w] = "CloseError"]
          /\ UNCHANGED files
    /\ Goto(w, "except")
    /\ UNCHANGED <<inputs, funvars, cost_usd, num_measurements, target, temp, mainvars,
                   next_entry, started, cur, pos, handle, loaded, orig, outcome,
                   outq>>

\* lines 104-106: except: temp_path.unlink(); raise.  The unlinked file has
\* no name left and its content is gone.  unlink of a missing path raises
\* FileNotFoundError, which then is what leaves the task
Cleanup(w) ==
    /\ Alive
    /\ pc[w] = "except"
    /\ LET p == pathOf[cur[w]]
       IN IF temp[p] # NoFile
          THEN /\ temp' = [temp EXCEPT ![p] = NoFile]
               /\ files' = [files EXCEPT ![temp[p]] = EmptyFile]
               /\ Finish(w, "failed", err[w], orig[w])
          ELSE /\ UNCHANGED <<temp, files>>
               /\ Finish(w, "failed", "FileNotFoundError", orig[w])
    /\ UNCHANGED <<inputs, funvars, cost_usd, num_measurements, target, mainvars,
                   next_entry, started, faults>>

Next ==
    \/ ListFiles
    \/ MainLog
    \/ MainRaise
    \/ MainSummary
    \/ \E w \in Workers : GetTask(w)
    \/ \E w \in Workers : SyncFile(w)
    \/ \E w \in Workers : CheckBudget(w)
    \/ \E w \in Workers : OpenTemp(w)
    \/ \E w \in Workers : NextRecord(w)
    \/ \E w \in Workers : LoadCount(w)
    \/ \E w \in Workers : StoreCount(w)
    \/ \E w \in Workers : WriteRecord(w)
    \/ \E w \in Workers : Replace(w)
    \/ \E w \in Workers : CloseStream(w)
    \/ \E w \in Workers : ExitWith(w)
    \/ \E w \in Workers : Cleanup(w)

Spec == Init /\ [][Next]_vars

TypeOK ==
    /\ cost_usd \in Nat
    /\ num_measurements \in Nat
    /\ exit_status \in {-1, 0, 1}
    /\ \A w \in Workers : (cur[w] = NoEntry) <=> (pc[w] = "idle")

\* ---- definitions used by the properties

\* positions of fetch_file after the budget check
InFlight == {"open", "next", "load", "store", "write", "replace", "close",
             "exit", "except"}

\* the cost entry e accrues when its whole stream is drawn
EntryCost(e) == CostAfterRecord(0) * nrec[e]

MaxEntryCost == CHOOSE c \in {EntryCost(e) : e \in Entries} :
                    \A e \in Entries : EntryCost(e) <= c

RECURSIVE SumRecords(_)
SumRecords(S) ==
    IF S = {} THEN 0
    ELSE LET e == CHOOSE x \in S : TRUE
         IN Len(files[target[pathOf[e]]].lines) + SumRecords(S \ {e})

Downloaded == {e \in Entries : outcome[e].kind = "downloaded"}

WriteFailed(e) == outcome[e].kind = "failed" /\ outcome[e].orig # "CostLimitError"

\* ---- C1 .. C10

\* C1: in every reachable state each entry's target path either does not
\* exist or holds a complete file (all records of the entry, flushed and
\* closed); the target never appears while its stream is still open.
C1_TargetAbsentOrComplete ==
    \A e \in Entries :
        target[pathOf[e]] = NoFile \/ Complete(target[pathOf[e]], e)

\* C2: when a step of writing an entry fails, then after fetch_file has
\* returned control the temporary file and the target file do not exist and
\* the failure leaving the task is the original one.
C2_FailedWriteLeavesNothing ==
    \A e \in Entries :
        WriteFailed(e) =>
            /\ temp[pathOf[e]] = NoFile
            /\ target[pathOf[e]] = NoFile
            /\ outcome[e].err = outcome[e].orig

\* C3: the cost never decreases, and while it is strictly above the ceiling
\* no worker that has not passed its budget check enters the writing part of
\* fetch_file (no temporary file is opened, no record streamed); a check made
\* at a cost equal to or below the ceiling lets the entry proceed.
C3_NoNewWorkOnceExceeded ==
    [][/\ cost_usd' >= cost_usd
       /\ \A w \in Workers :
            /\ (cost_usd > cost_limit_usd /\ pc[w] \notin InFlight)
                   => pc'[w] \notin InFlight
            /\ (cost_usd <= cost_limit_usd /\ pc[w] = "check" /\ pc'[w] # "check")
                   => pc'[w] = "open"]_vars

\* the first check passed at a cost equal to the ceiling, its entry is still
\* being written, and a later check was refused
C3_Witness ==
    /\ prior_cost = cost_limit_usd
    /\ \E w \in Workers : pc[w] \in InFlight
    /\ \E e \in Entries : outcome[e].err = "CostLimitError"

\* C4: when the cost was at most the ceiling at the first check, the cost
\* never exceeds the ceiling by more than (pool size x largest entry cost).
C4_OvershootBounded ==
    prior_cost <= cost_limit_usd
        => cost_usd <= cost_limit_usd + processes * MaxEntryCost

\* the bound is attained by a pool of at least two workers
C4_Witness ==
    /\ prior_cost <= cost_limit_usd
    /\ processes > 1
    /\ cost_usd = cost_limit_usd + processes * MaxEntryCost

\* C5: on normal completion the record count of the summary equals the sum
\* of the numbers of records written for the downloaded entries.
C5_SummaryCountsEveryRecord ==
    mainpc = "completed" => summary[1].records = SumRecords(Downloaded)

\* C6: an entry whose target existed is skipped whatever the budget: it never
\* reaches the budget check or the stream, no temporary file is created and
\* the existing file stays as it was.
C6_ExistingTargetSkipped ==
    \A e \in Entries :
        target0[pathOf[e]] # NoFile =>
            /\ \A w \in Workers : cur[w] = e => pc[w] = "sync"
            /\ outcome[e].kind \in {"none", "skipped"}
            /\ temp[pathOf[e]] = NoFile
            /\ target[pathOf[e]] = target0[pathOf[e]]
            /\ Complete(target[pathOf[e]], e)

\* an entry was skipped while the cost was above the ceiling
C6_Witness ==
    \E e \in Entries :
        /\ outcome[e].kind = "skipped"
        /\ cost_usd > cost_limit_usd

\* C7: in a run that completes normally every entry was begun once and has
\* one logged outcome, "skipped" exactly for the entries whose target existed
\* at the start and "downloaded" exactly for the others; every target exists
\* (complete) and no temporary file remains.
C7_NormalRunOutcomes ==
    mainpc = "completed" =>
        \A e \in Entries :
            /\ started[e] = 1
            /\ Len(logged[e]) = 1
            /\ (logged[e][1] = "skipped") <=> (target0[pathOf[e]] # NoFile)
            /\ (logged[e][1] = "downloaded") <=> (target0[pathOf[e]] = NoFile)
            /\ target[pathOf[e]] # NoFile
            /\ Complete(target[pathOf[e]], e)
            /\ temp[pathOf[e]] = NoFile

\* a completed run with a downloaded and a skipped entry
C7_Witness ==
    /\ mainpc = "completed"
    /\ \E e1, e2 \in Entries :
          logged[e1] = <<"downloaded">> /\ logged[e2] = <<"skipped">>

ZeroCeiling == cost_limit_usd = 0 /\ prior_cost > 0

\* C8 as stated: with a ceiling of 0 and a positive cost at the start the run
\* aborts before any entry is processed, exits non-zero and creates no file.
C8_ZeroCeilingProcessesNoEntry ==
    ZeroCeiling =>
        /\ \A e \in Entries : outcome[e].kind \in {"none", "failed"}
        /\ exit_status # 0
        /\ target = target0
        /\ \A p \in Paths : temp[p] = NoFile

\* C8 amended: with a ceiling of 0 and a positive cost at the start nothing
\* is downloaded and no file is created or changed; entries whose target
\* exists are still skipped; the run exits 0 only when every target existed,
\* and an abort is due to the budget (or to the listing).
C8_ZeroCeilingDownloadsNothing ==
    ZeroCeiling =>
        /\ \A e \in Entries :
              /\ outcome[e].kind \in {"none", "skipped", "failed"}
              /\ outcome[e].kind = "skipped" => target0[pathOf[e]] # NoFile
              /\ outcome[e].kind = "failed" => outcome[e].err = "CostLimitError"
        /\ \A w \in Workers : pc[w] \notin InFlight
        /\ target = target0
        /\ \A p \in Paths : temp[p] = NoFile
        /\ exit_status = 0 => \A p \in Paths : target0[p] # NoFile
        /\ mainpc = "aborted" =>
              /\ exit_status = 1
              /\ main_err \in {"CostLimitError", "ListingError"}

\* the run aborted on the budget after it had skipped an existing entry
C8_Witness ==
    /\ ZeroCeiling
    /\ mainpc = "aborted"
    /\ main_err = "CostLimitError"
    /\ \E e \in Entries : logged[e] = <<"skipped">>

\* C9: the exit status is 0 exactly when the run completed, with every entry
\* skipped or downloaded, and 1 exactly when it aborted, which happens only
\* after a failure (of a task or of the listing); a run in which a task
\* failed never exits 0.
C9_ExitStatus ==
    /\ exit_status = 0 <=> mainpc = "completed"
    /\ exit_status = 1 <=> mainpc = "aborted"
    /\ mainpc = "completed" =>
          \A e \in Entries : outcome[e].kind \in {"skipped", "downloaded"}
    /\ mainpc = "aborted" =>
          \/ main_err = "ListingError"
          \/ \E e \in Entries : outcome[e].kind = "failed"
    /\ (\E e \in Entries : outcome[e].kind = "failed") => exit_status # 0

\* the process exited 1 after a failure inside the try block
C9_Witness ==
    /\ exit_status = 1
    /\ \E e \in Entries : WriteFailed(e) /\ main_err = outcome[e].err

\* C10: a run that ends in a fatal abort because a task failed (budget
\* exceeded or any other failure) has logged the summary line before it exits.
C10_AbortLogsSummary ==
    (mainpc = "aborted" /\ \E e \in Entries : outcome[e].kind = "failed")
        => summary # <<>>

\* ---- trim_measurement on its own

\* no run is going on
NoRun ==
    /\ cost_limit_usd = 0
    /\ prior_cost = 0
    /\ cost_usd = 0
    /\ num_measurements = 0
    /\ nrec = [e \in Entries |-> 1]
    /\ pathOf = [e \in Entries |-> e]
    /\ processes = 1
    /\ target = [p \in Paths |-> NoFile]
    /\ files = [i \in Inodes |-> EmptyFile]
    /\ target0 = target
    /\ temp = [p \in Paths |-> NoFile]
    /\ mainpc = "off"
    /\ next_entry = 1
    /\ started = [e \in Entries |-> 0]
    /\ pc = [w \in Workers |-> "idle"]
    /\ cur = [w \in Workers |-> NoEntry]
    /\ pos = [w \in Workers |-> 0]
    /\ handle = [w \in Workers |-> NoFile]
    /\ loaded = [w \in Workers |-> 0]
    /\ orig = [w \in Workers |-> ""]
    /\ err = [w \in Workers |-> ""]
    /\ outcome = [e \in Entries |-> NoOutcome]
    /\ outq = <<>>
    /\ logged = [e \in Entries |-> <<>>]
    /\ summary = <<>>
    /\ main_err = ""
    /\ exit_status = -1
    /\ faults = 0

runvars == <<cost_limit_usd, prior_cost, cost_usd, num_measurements, nrec, pathOf,
             processes, target0, target, temp, files, mainpc, next_entry, started,
             pc, cur, pos, handle, loaded, orig, err, outcome, outq, logged,
             summary, main_err, exit_status, faults>>

InitTrim ==
    /\ NoRun
    /\ max_string_size \in 0..MaxStrLen
    /\ record \in Values
    /\ trimmed = <<>>
    /\ listing = <<>>
    /\ resolved = <<>>

\* line 100: trim_measurement(measurement, args.max_string_size)
TrimOnce ==
    /\ trimmed = <<>>
    /\ trimmed' = <<trim_measurement(record, max_string_size)>>
    /\ UNCHANGED <<runvars, max_string_size, record, listing, resolved>>

\* the same call on what the first call returned
TrimAgain ==
    /\ Len(trimmed) = 1
    /\ trimmed' = Append(trimmed, trim_measurement(trimmed[1], max_string_size))
    /\ UNCHANGED <<runvars, max_string_size, record, listing, resolved>>

\* ---- a run after an interrupted one

\* every entry has a stream of more than one record, no target exists yet,
\* the ceiling is never reached, and each of the temporary paths holds the
\* file an interrupted run left
InitRerun ==
    InitRun({PriorCost + NumEntries * (MaxRecords + 1)}, {MaxRecords + 1},
            {NumWorkers}, {{}}, {Paths})

SpecRerun == InitRerun /\ [][Next]_vars

NextTrim == TrimOnce \/ TrimAgain

SpecTrim == InitTrim /\ [][NextTrim]_vars

\* ---- _make_local_path on its own

\* a file name is the sequence of its parts between the dots
Stems == {"m", "n"}
Suffixes == {"json", "tar", "lz4", "jsonl", "gz"}

RECURSIVE SuffixSeqs(_)
SuffixSeqs(n) ==
    IF n = 0 THEN {<<>>}
    ELSE SuffixSeqs(n - 1)
         \cup {Append(q, x) : q \in SuffixSeqs(n - 1), x \in Suffixes}

\* PurePosixPath(entry.url.path).name
Basenames == {<<st>> \o q : st \in Stems, q \in SuffixSeqs(MaxSuffixes)}

FileEntries == [country : {"BR", "IR"}, test_type : {"dnscheck", "webconnectivity"},
                date : {"2021-01-01", "2021-01-02"}, basename : Basenames]

\* line 64: basename.endswith('.jsonl.gz')
EndsWithJsonlGz(b) ==
    Len(b) >= 3 /\ SubSeq(b, Len(b) - 1, Len(b)) = <<"jsonl", "gz">>

\* line 65: basename.rsplit('.', 2)[0], what is left of the last two dots
RSplit2Head(b) == IF Len(b) >= 3 THEN SubSeq(b, 1, Len(b) - 2) ELSE <<b[1]>>

\* lines 62-67: output_dir / country / test_type / date / basename
_make_local_path(entry) ==
    <<"output_dir", entry.country, entry.test_type, entry.date,
      IF EndsWithJsonlGz(entry.basename)
      THEN entry.basename
      ELSE RSplit2Head(entry.basename) \o <<"jsonl", "gz">>>>

\* line 95: target_file_path.with_name(f'{target_file_path.name}.tmp')
TempPath(path) == [path EXCEPT ![5] = @ \o <<"tmp">>]

InitPath ==
    /\ NoRun
    /\ max_string_size = 0
    /\ record = Num(0)
    /\ trimmed = <<>>
    /\ listing \in {l \in FileEntries \X FileEntries :
                       /\ l[1].country = "BR"
                       /\ l[1].test_type = "dnscheck"
                       /\ l[1].date = "2021-01-01"}
    /\ resolved = <<>>

\* lines 81 and 95 for both entries
MakeLocalPaths ==
    /\ listing # <<>>
    /\ resolved = <<>>
    /\ resolved' = [i \in 1..2 |->
                      [target |-> _make_local_path(listing[i]),
                       temp |-> TempPath(_make_local_path(listing[i]))]]
    /\ UNCHANGED <<runvars, max_string_size, record, trimmed, listing>>

NextPath == MakeLocalPaths

SpecPath == InitPath /\ [][NextPath]_vars

\* ---- C11 .. C20

\* value v has, at no depth, a mapping with a key whose value is a string
\* longer than max
RECURSIVE NoLongField(_, _)
NoLongField(v, max) ==
    \A i \in 1..Len(v.kids) :
        /\ v.t = "dict" => ~(v.kids[i].v.t = "str" /\ v.kids[i].v.n > max)
        /\ NoLongField(v.kids[i].v, max)

\* b is a with nothing changed but the long string fields of its mappings,
\* which are gone
RECURSIVE OnlyLongFieldsGone(_, _, _)
OnlyLongFieldsGone(a, b, max) ==
    /\ b.t = a.t
    /\ b.n = a.n
    /\ LET Stays(item) == ~(a.t = "dict" /\ item.v.t = "str" /\ item.v.n > max)
           kept == SelectSeq(a.kids, Stays)
       IN /\ Len(b.kids) = Len(kept)
          /\ \A i \in 1..Len(kept) :
                /\ b.kids[i].k = kept[i].k
                /\ OnlyLongFieldsGone(kept[i].v, b.kids[i].v, max)

\* C13: after trim_measurement no mapping at any depth of the record has a
\* key whose value is a string longer than the threshold, and everything else
\* is as it was: the other keys and values in their order, every sequence with
\* its length, order and own string elements, every scalar.
C13_TrimRemovesOnlyLongFields ==
    trimmed # <<>> =>
        /\ NoLongField(trimmed[1], max_string_size)
        /\ OnlyLongFieldsGone(record, trimmed[1], max_string_size)

\* a sequence that holds a long string, which stays, and a mapping whose long
\* string field is gone
C13_Witness ==
    /\ trimmed # <<>>
    /\ record.t = "list"
    /\ \E i, j \in 1..Len(record.kids) :
          /\ IsLongString(record.kids[i].v, max_string_size)
          /\ trimmed[1].kids[i] = record.kids[i]
          /\ record.kids[j].v.t = "dict"
          /\ record.kids[j].v.kids # <<>>
          /\ trimmed[1].kids[j].v.kids = <<>>

\* C14: trimming a trimmed record again with the same threshold changes
\* nothing.
C14_TrimIdempotent ==
    Len(trimmed) = 2 => trimmed[2] = trimmed[1]

\* the first call removed something and the second call has returned
C14_Witness ==
    /\ Len(trimmed) = 2
    /\ trimmed[1] # record
    /\ \E i \in 1..Len(trimmed[1].kids) : trimmed[1].kids[i].v.kids # <<>>

\* C15: for every committed entry the lines of its target file are the
\* trimmed records of that entry's own stream, one line per record and in the
\* order of the stream, whatever the interleaving of the workers.
C15_TargetLinesAreTrimmedRecords ==
    \A e \in Entries :
        outcome[e].kind = "downloaded" =>
            LET lines == files[target[pathOf[e]]].lines
            IN /\ Len(lines) = nrec[e]
               /\ \A i \in 1..nrec[e] :
                     /\ lines[i] = trim_measurement(Measurement(e, i), max_string_size)
                     /\ NoLongField(lines[i], max_string_size)

\* two entries with streams of several records were written side by side and
\* both are committed
C15_Witness ==
    /\ \A e \in Entries : outcome[e].kind = "downloaded" /\ nrec[e] > 1
    /\ processes > 1

\* C20: a temporary file an interrupted run left at an entry's temporary path
\* changes nothing: the entry is not taken as present, and its target, once
\* it exists, holds records of this run only, none of the stale lines.
C20_StaleTempIgnored ==
    \A e \in Entries :
        /\ outcome[e].kind = "skipped" => target0[pathOf[e]] # NoFile
        /\ outcome[e].kind = "downloaded" => Complete(target[pathOf[e]], e)
        /\ target[pathOf[e]] # NoFile =>
              \A i \in 1..Len(files[target[pathOf[e]]].lines) :
                  files[target[pathOf[e]]].lines[i] # StaleLine

\* an entry whose temporary path held a stale file is downloaded and committed
C20_Witness ==
    \E e \in Entries :
        /\ outcome[e].kind = "downloaded"
        /\ target[pathOf[e]] = StaleInode(pathOf[e])

\* some task has signalled that the budget is exhausted
BudgetSignalled == \E e \in Entries : outcome[e].err = "CostLimitError"

\* C11: when the run was cancelled by a budget failure and has ended, no
\* entry has a temporary file left and no target holds a partial file: every
\* entry that was being written is either committed whole or cleaned up.
C11_CancelledWritesCommittedOrCleaned ==
    (mainpc = "aborted" /\ main_err = "CostLimitError") =>
        \A e \in Entries :
            /\ temp[pathOf[e]] = NoFile
            /\ target[pathOf[e]] = NoFile \/ Complete(target[pathOf[e]], e)

\* C12: a failed task is fatal to the run: the run is never completed and no
\* summary is logged, the failure is not logged as an outcome of its entry,
\* once consumed it is what main raised, and the entry is handed to a worker
\* once only.
C12_TaskFailureIsFatal ==
    \A e \in Entries :
        outcome[e].kind = "failed" =>
            /\ mainpc \in {"dispatching", "aborted"}
            /\ summary = <<>>
            /\ logged[e] = <<>>
            /\ started[e] = 1
            /\ \A w \in Workers : cur[w] # e
            /\ mainpc = "aborted" => main_err # "" /\ exit_status = 1

\* a write failed, the run is aborted and an entry was never handed out
C12_Witness ==
    /\ mainpc = "aborted"
    /\ \E e \in Entries : WriteFailed(e)
    /\ next_entry <= NumEntries

\* C17 as stated: once a task has signalled budget exhaustion, the pool hands
\* no further entry to a worker.
C17_NoDispatchAfterSignal ==
    [][BudgetSignalled => next_entry' = next_entry]_vars

\* C17: the pool stops handing out entries when main has consumed the failed
\* result and left the pool; an entry handed out between the signal and that
\* moment begins no download.
C17_NoDispatchAfterRaiseNoWorkAfterSignal ==
    [][/\ mainpc = "aborted" => next_entry' = next_entry /\ started' = started
       /\ BudgetSignalled =>
             \A w \in Workers : pc'[w] = "open" => pc[w] = "open"]_vars

\* a single worker signalled exhaustion for the first entry, was handed the
\* second one after that, and refused it as well
C17_Witness ==
    /\ processes = 1
    /\ outcome[1].err = "CostLimitError"
    /\ outcome[2].err = "CostLimitError"

\* C18: an abort rolls nothing back: after the run has ended aborted, every
\* target a task reported as downloaded and every target that existed before
\* the run is still there, complete and unchanged.
C18_AbortKeepsCommittedAndOldFiles ==
    mainpc = "aborted" =>
        \A e \in Entries :
            /\ outcome[e].kind = "downloaded" =>
                  /\ target[pathOf[e]] \notin {NoFile, target0[pathOf[e]]}
                  /\ Complete(target[pathOf[e]], e)
            /\ target0[pathOf[e]] # NoFile =>
                  /\ target[pathOf[e]] = target0[pathOf[e]]
                  /\ Complete(target0[pathOf[e]], e)

\* the run was aborted by a failed task after another entry was committed
C18_Witness ==
    /\ mainpc = "aborted"
    /\ main_err # "ListingError"
    /\ \E e \in Entries : outcome[e].kind = "downloaded"

\* C16: two entries of one listing that differ in country, test type, date
\* or URL basename resolve to different target paths and different temporary
\* paths.
C16_DistinctEntriesDistinctPaths ==
    (resolved # <<>> /\ listing[1] # listing[2]) =>
        /\ resolved[1].target # resolved[2].target
        /\ resolved[1].temp # resolved[2].temp

\* ---- the run under fair scheduling

\* the main thread and the pool's threads keep being scheduled
FairSpec == Spec /\ WF_vars(Next)

Terminal == mainpc \in {"completed", "aborted"}

\* C19: under fair scheduling every run reaches a terminal state, Completed
\* or Aborted, and a terminal state is final: the state of main never changes
\* again, nothing more is logged and no summary is added.
C19_RunTerminatesOnce ==
    /\ <>Terminal
    /\ [][Terminal => UNCHANGED <<mainpc, logged, summary, exit_status>>]_vars

\* the run is aborted while a worker is still inside fetch_file
C19_Witness ==
    /\ mainpc = "aborted"
    /\ exit_status = 1
    /\ \E w \in Workers : pc[w] \in InFlight

====
